---- MODULE Spec2Model ----
(***************************************************************************)
(* Membership (StableSet) and DBC ledger of maidsafe/stableset-experiments. *)
(* Every node is a stateright actor: on_start builds its state and sends    *)
(* its first messages, on_msg handles one delivered message to completion.  *)
(* The network is an unordered, non-duplicating multiset of envelopes.      *)
(***************************************************************************)
EXTENDS Integers, Naturals, Sequences, FiniteSets, Bags, TLC

\* ---------------------------------------------------------------- state
VARIABLES
    config,         \* ModelCfg and the ELDER_COUNT the nodes were built with
    stable_set,     \* stable_set[n]: the StableSet of node n's Membership
    ledger,         \* ledger[n]: the Ledger of node n's Wallet
    is_leaving,     \* is_leaving[n]: State.is_leaving
    network,        \* bag of envelopes [src, dst, msg] not yet delivered
    steps           \* number of messages delivered so far

vars == <<config, stable_set, ledger, is_leaving, network, steps>>

\* const ELDER_COUNT of main.rs
ELDER_COUNT == 4

\* ---------------------------------------------------------------- bounds
\* Largest number of actors (ModelCfg.server_count) a configuration may have.
MaxServers == 4
\* Number of deliveries at the start of a run that are taken in every order.
MaxSteps == 3
\* Runs of at most this many actors are taken in every order to their end.
FullServers == 2
\* StableSet taken alone: its ids are 0..SetServers-1, ord_idx is at most MaxOrdIdx.
SetServers == 2
MaxOrdIdx == 2
\* Ledger taken alone: its witnesses and elders are among 0..LedgerServers-1.
LedgerServers == 3

\* ModelCfg: server_count actors, ids 0..elder_count-1 are the genesis nodes.
\* elder_limit is the value the section-wide parameter ELDER_COUNT is built
\* with: 4 as in main.rs, or the number of genesis nodes.
Configs ==
    {c \in [server_count : 2 .. MaxServers,
            elder_count : 1 .. MaxServers,
            elder_limit : 1 .. ELDER_COUNT] :
        /\ c.elder_count <= c.server_count
        /\ c.elder_limit \in {c.elder_count, ELDER_COUNT}}

Ids == 0 .. (config.server_count - 1)
GenesisNodes == 0 .. (config.elder_count - 1)

\* ---------------------------------------------------------------- fake_crypto
majority(m, n) == m > (n \div 2)

\* ---------------------------------------------------------------- Member
Member(ord_idx, id) == [ord_idx |-> ord_idx, id |-> id]

\* derive(Ord) on Member: lexicographic on (ord_idx, id).
MemberLess(a, b) ==
    \/ a.ord_idx < b.ord_idx
    \/ a.ord_idx = b.ord_idx /\ a.id < b.id

\* The least member of a non-empty set in BTreeSet order.
MinMember(S) == CHOOSE m \in S : \A x \in S : x = m \/ MemberLess(m, x)

\* ---------------------------------------------------------------- maps
\* BTreeMap as a function whose DOMAIN is the key set.
EmptyMap == [k \in {} |-> {}]

MapGet(map, k) == IF k \in DOMAIN map THEN map[k] ELSE {}

MapPut(map, k, v) == [x \in (DOMAIN map) \cup {k} |-> IF x = k THEN v ELSE map[x]]

MapRemove(map, k) == [x \in (DOMAIN map) \ {k} |-> map[x]]

\* ---------------------------------------------------------------- StableSet
StableSetDefault == [members |-> {}, dead |-> {}, joining |-> EmptyMap, leaving |-> EmptyMap]

ids(ss) == {m.id : m \in ss.members}

contains(ss, id) == id \in ids(ss)

has_seen(ss, id) == id \in ss.dead \/ contains(ss, id)

has_member(ss, member) == member \in ss.members

\* self.members().find(|m| m.id == id): the first member, in order, with this id.
HasMemberWithId(ss, id) == \E m \in ss.members : m.id = id

member_by_id(ss, id) == MinMember({m \in ss.members : m.id = id})

joining_witnesses(ss, member) == MapGet(ss.joining, member)

leaving_witnesses(ss, member) == MapGet(ss.leaving, member)

\* add: the bool is BTreeSet::insert's, true iff the witness was not yet recorded.
add_ok(ss, member, witness) ==
    /\ ~has_seen(ss, member.id)
    /\ witness \notin MapGet(ss.joining, member)

add(ss, member, witness) ==
    IF ~has_seen(ss, member.id)
    THEN [ss EXCEPT !.joining = MapPut(ss.joining, member, MapGet(ss.joining, member) \cup {witness})]
    ELSE ss

\* remove(id): marks the id dead and drops every member that carries it.
\* remove(id) that forgets the ids that were dead before.
remove_forgetful(ss, id) ==
    [ss EXCEPT !.dead = {id},
               !.members = {m \in ss.members : m.id # id}]

remove(ss, id) ==
    [ss EXCEPT !.dead = ss.dead \cup {id},
               !.members = {m \in ss.members : m.id # id}]

\* remove(member, witness) as Membership calls it: records a leave witness.
remove_share_ok(ss, member, witness) == witness \notin MapGet(ss.leaving, member)

remove_share(ss, member, witness) ==
    [ss EXCEPT !.leaving = MapPut(ss.leaving, member, MapGet(ss.leaving, member) \cup {witness})]

\* The quorum filter counting every recorded witness, elder or not.
ReadyKeys_any_witness(map, elders) ==
    {k \in DOMAIN map : majority(Cardinality(map[k]), Cardinality(elders))}

ReadyKeys(map, elders) ==
    {k \in DOMAIN map : majority(Cardinality(map[k] \cap elders), Cardinality(elders))}

\* The promotion loop without the look-up of a member that has the id already.
PromoteOne_unreconciled(ss, member) ==
    [ss EXCEPT !.joining = MapRemove(ss.joining, member),
               !.members = ss.members \cup {member}]

\* The promotion loop keeping the member it finds with the id, whatever its
\* ord_idx.
PromoteOne_first_wins(ss, member) ==
    IF HasMemberWithId(ss, member.id)
    THEN [ss EXCEPT !.joining = MapRemove(ss.joining, member)]
    ELSE [ss EXCEPT !.joining = MapRemove(ss.joining, member),
                    !.members = ss.members \cup {member}]

\* One iteration of the `for member in ready_to_join` loop body.
PromoteOne(ss, member) ==
    LET s1 == [ss EXCEPT !.joining = MapRemove(ss.joining, member)]
    IN  IF HasMemberWithId(s1, member.id)
        THEN LET existing == member_by_id(s1, member.id)
             IN  IF existing.ord_idx >= member.ord_idx
                 THEN s1
                 ELSE [s1 EXCEPT !.members = (s1.members \ {existing}) \cup {member}]
        ELSE [s1 EXCEPT !.members = s1.members \cup {member}]

RECURSIVE PromoteAll(_, _)
PromoteAll(ss, ready) ==
    IF ready = {} THEN ss
    ELSE LET m == MinMember(ready)
         IN  PromoteAll(PromoteOne(ss, m), ready \ {m})

\* One iteration of the `for member in ready_to_leave` loop body.
DemoteOne(ss, member) ==
    LET s1 == [ss EXCEPT !.leaving = MapRemove(ss.leaving, member)]
    IN  IF HasMemberWithId(s1, member.id)
        THEN [s1 EXCEPT !.members = s1.members \ {member_by_id(s1, member.id)}]
        ELSE s1

RECURSIVE DemoteAll(_, _)
DemoteAll(ss, ready) ==
    IF ready = {} THEN ss
    ELSE LET m == MinMember(ready)
         IN  DemoteAll(DemoteOne(ss, m), ready \ {m})

process_ready_actions(ss, elders) ==
    LET s1 == PromoteAll(ss, ReadyKeys(ss.joining, elders))
    IN  DemoteAll(s1, ReadyKeys(s1.leaving, elders))

process_ready_actions_updated(ss, elders) ==
    ReadyKeys(ss.joining, elders) # {} \/ ReadyKeys(ss.leaving, elders) # {}

\* StableSet::merge(witness, other, elders)
RECURSIVE MergeMembers(_, _, _)
MergeMembers(ss, witness, others) ==
    IF others = {} THEN ss
    ELSE LET m == MinMember(others)
             s1 == IF has_seen(ss, m.id) THEN ss
                   ELSE [ss EXCEPT !.joining = MapPut(ss.joining, m, MapGet(ss.joining, m) \cup {witness})]
         IN  MergeMembers(s1, witness, others \ {m})

merge(ss, witness, other, elders) ==
    process_ready_actions(MergeMembers(ss, witness, other.members), elders)

\* ---------------------------------------------------------------- Ledger
RECURSIVE SumSeq(_)
SumSeq(q) == IF q = <<>> THEN 0 ELSE Head(q) + SumSeq(Tail(q))

Tx(inputs, outputs) == [inputs |-> inputs, outputs |-> outputs]

Dbc(output_index, tx) == [output_index |-> output_index, tx |-> tx]

DbcId(inputs, output_index) == [inputs |-> inputs, output_index |-> output_index]

GenesisAmount == 100

genesis_dbc == Dbc(0, Tx(<<>>, <<GenesisAmount>>))

\* Dbc::id
id_of(dbc) == DbcId(dbc.tx.inputs, dbc.output_index)

\* Dbc::amount (indexing is 0-based in the code)
amount(dbc) == dbc.tx.outputs[dbc.output_index + 1]

verify_sums(tx) ==
    SumSeq([i \in 1 .. Len(tx.inputs) |-> amount(tx.inputs[i])]) = SumSeq(tx.outputs)

\* Dbc::verify
verify(dbc) == dbc.output_index < Len(dbc.tx.outputs) /\ verify_sums(dbc.tx)

SeqRange(q) == {q[i] : i \in 1 .. Len(q)}

\* derive(Ord): Vec compares lexicographically, structs field by field.
CmpNat(a, b) == IF a < b THEN -1 ELSE IF a > b THEN 1 ELSE 0

RECURSIVE CmpNatSeq(_, _)
CmpNatSeq(a, b) ==
    IF a = <<>> THEN (IF b = <<>> THEN 0 ELSE -1)
    ELSE IF b = <<>> THEN 1
    ELSE IF CmpNat(Head(a), Head(b)) # 0 THEN CmpNat(Head(a), Head(b))
    ELSE CmpNatSeq(Tail(a), Tail(b))

RECURSIVE CmpTx(_, _)
RECURSIVE CmpDbcSeq(_, _)
CmpDbc(a, b) ==
    IF CmpNat(a.output_index, b.output_index) # 0
    THEN CmpNat(a.output_index, b.output_index)
    ELSE CmpTx(a.tx, b.tx)

CmpDbcSeq(a, b) ==
    IF a = <<>> THEN (IF b = <<>> THEN 0 ELSE -1)
    ELSE IF b = <<>> THEN 1
    ELSE IF CmpDbc(Head(a), Head(b)) # 0 THEN CmpDbc(Head(a), Head(b))
    ELSE CmpDbcSeq(Tail(a), Tail(b))

CmpTx(a, b) ==
    IF CmpDbcSeq(a.inputs, b.inputs) # 0
    THEN CmpDbcSeq(a.inputs, b.inputs)
    ELSE CmpNatSeq(a.outputs, b.outputs)

MinTx(S) == CHOOSE t \in S : \A x \in S : CmpTx(t, x) <= 0

LedgerNew == [commitments |-> EmptyMap, pending_commitments |-> EmptyMap]

\* Unspent amount among the outputs of one tx (output_dbc_ids_and_amounts).
\* The sum of a tx's outputs without the check that an output was spent.
UnspentOf_spent_too(led, tx) == SumSeq(tx.outputs)

UnspentOf(led, tx) ==
    SumSeq([i \in 1 .. Len(tx.outputs) |->
               IF DbcId(tx.inputs, i - 1) \in DOMAIN led.commitments
               THEN 0 ELSE tx.outputs[i]])

\* commitments.values() yields one tx per key, repeated when several keys map to it.
RECURSIVE SumOverKeys(_, _)
SumOverKeys(led, keys) ==
    IF keys = {} THEN 0
    ELSE LET k == CHOOSE x \in keys : TRUE
         IN  UnspentOf(led, led.commitments[k]) + SumOverKeys(led, keys \ {k})

sum_unspent_outputs(led) ==
    UnspentOf(led, genesis_dbc.tx) + SumOverKeys(led, DOMAIN led.commitments)

\* validate_tx's input checks without the one that the input is not committed.
InputOk_recommit(led, tx, input_dbc) ==
    /\ verify(input_dbc) \/ input_dbc = genesis_dbc
    /\ \A parent \in SeqRange(input_dbc.tx.inputs) :
          /\ id_of(parent) \in DOMAIN led.commitments
          /\ led.commitments[id_of(parent)] = input_dbc.tx
    /\ \A pending_tx \in DOMAIN led.pending_commitments :
          ~(input_dbc \in SeqRange(pending_tx.inputs) /\ pending_tx # tx)

\* validate_tx's input checks without the one that no other pending tx uses
\* the input.
InputOk_concurrent(led, tx, input_dbc) ==
    /\ verify(input_dbc) \/ input_dbc = genesis_dbc
    /\ \A parent \in SeqRange(input_dbc.tx.inputs) :
          /\ id_of(parent) \in DOMAIN led.commitments
          /\ led.commitments[id_of(parent)] = input_dbc.tx
    /\ id_of(input_dbc) \notin DOMAIN led.commitments

InputOk(led, tx, input_dbc) ==
    /\ verify(input_dbc) \/ input_dbc = genesis_dbc
    /\ \A parent \in SeqRange(input_dbc.tx.inputs) :
          /\ id_of(parent) \in DOMAIN led.commitments
          /\ led.commitments[id_of(parent)] = input_dbc.tx
    /\ id_of(input_dbc) \notin DOMAIN led.commitments
    /\ \A pending_tx \in DOMAIN led.pending_commitments :
          ~(input_dbc \in SeqRange(pending_tx.inputs) /\ pending_tx # tx)

validate_tx(led, tx) ==
    /\ verify_sums(tx)
    /\ \A input_dbc \in SeqRange(tx.inputs) : InputOk(led, tx, input_dbc)

\* log_tx_share: the returned bool
log_tx_share_first(led, tx) ==
    validate_tx(led, tx) /\ tx \notin DOMAIN led.pending_commitments

log_tx_share(led, id, tx, witness) ==
    IF ~validate_tx(led, tx) THEN led
    ELSE [led EXCEPT !.pending_commitments =
             MapPut(@, tx, MapGet(@, tx) \cup {witness, id})]

CommitOne(led, tx) ==
    [commitments |->
        [k \in (DOMAIN led.commitments) \cup {id_of(d) : d \in SeqRange(tx.inputs)} |->
            IF k \in {id_of(d) : d \in SeqRange(tx.inputs)} THEN tx ELSE led.commitments[k]],
     pending_commitments |-> MapRemove(led.pending_commitments, tx)]

RECURSIVE CommitAll(_, _)
CommitAll(led, ready) ==
    IF ready = {} THEN led
    ELSE LET t == MinTx(ready)
         IN  CommitAll(CommitOne(led, t), ready \ {t})

\* Commits every pending tx, whatever its witnesses.
process_completed_commitments_no_quorum(led, elders) ==
    CommitAll(led, DOMAIN led.pending_commitments)

\* Leaves every pending tx pending.
process_completed_commitments_idle(led, elders) == led

process_completed_commitments(led, elders) ==
    CommitAll(led, ReadyKeys(led.pending_commitments, elders))

\* Wallet::read_tx: the Option as a set of at most one tx.
read_tx(led, dbc_id) ==
    IF dbc_id \in DOMAIN led.commitments THEN {led.commitments[dbc_id]} ELSE {}

\* ---------------------------------------------------------------- Membership
RECURSIVE AddAll(_, _, _)
AddAll(ss, member, witnesses) ==
    IF witnesses = {} THEN ss
    ELSE LET w == CHOOSE x \in witnesses : \A y \in witnesses : x <= y
         IN  AddAll(add(ss, member, w), member, witnesses \ {w})

RECURSIVE SeedGenesis(_, _, _)
SeedGenesis(ss, todo, genesis) ==
    IF todo = {} THEN ss
    ELSE LET g == CHOOSE x \in todo : \A y \in todo : x <= y
         IN  SeedGenesis(AddAll(ss, Member(0, g), genesis), todo \ {g}, genesis)

\* Membership::new without the closing process_ready_actions.
MembershipNew_unpromoted(genesis) == SeedGenesis(StableSetDefault, genesis, genesis)

\* Membership::new
MembershipNew(genesis) ==
    process_ready_actions(SeedGenesis(StableSetDefault, genesis, genesis), genesis)

\* Membership::elders: the ids of the first ELDER_COUNT members in order.
elders_of(ss) ==
    {m.id : m \in {x \in ss.members :
                      Cardinality({y \in ss.members : MemberLess(y, x)}) < config.elder_limit}}

is_member(ss, id) == contains(ss, id)

\* handle_join_share: the state afterwards, and the returned bool.
handle_join_share(ss, id, member, witness) == add(add(ss, member, witness), member, id)

handle_join_share_first(ss, member, witness) ==
    joining_witnesses(ss, member) = {} /\ add_ok(ss, member, witness)

\* handle_leave_share: the state afterwards, and the returned bool.
handle_leave_share(ss, id, member, witness) ==
    remove_share(remove_share(ss, member, witness), member, id)

handle_leave_share_first(ss, member, witness) ==
    leaving_witnesses(ss, member) = {} /\ remove_share_ok(ss, member, witness)

\* acc = [ss, sync]: a stable set and the ids collected for a Sync.
RECURSIVE JoinShares(_, _, _, _)
JoinShares(acc, id, src, todo) ==
    IF todo = {} THEN acc
    ELSE LET m == MinMember(todo)
             first == handle_join_share_first(acc.ss, m, src)
         IN  JoinShares([ss |-> handle_join_share(acc.ss, id, m, src),
                         sync |-> IF first THEN acc.sync \cup {m.id} ELSE acc.sync],
                        id, src, todo \ {m})

RECURSIVE LeaveShares(_, _, _, _)
LeaveShares(acc, id, src, todo) ==
    IF todo = {} THEN acc
    ELSE LET m == MinMember(todo)
             first == handle_leave_share_first(acc.ss, m, src)
         IN  LeaveShares([ss |-> handle_leave_share(acc.ss, id, m, src),
                          sync |-> IF first THEN acc.sync \cup {m.id} ELSE acc.sync],
                         id, src, todo \ {m})

\* Merge of the piggybacked stable set, run before the action is dispatched.
membership_merge(ss, incoming, id, src) ==
    LET a1 == JoinShares([ss |-> ss, sync |-> {}], id, src, incoming.members)
        a2 == JoinShares(a1, id, src, DOMAIN incoming.joining)
        a3 == LeaveShares(a2, id, src, DOMAIN incoming.leaving)
        to_handle == {m \in DOMAIN a3.ss.leaving : ~has_member(incoming, m)}
    IN  LeaveShares(a3, id, src, to_handle)

NoMember == Member(0, 0)
NoTx == Tx(<<>>, <<>>)

ActSync == [type |-> "Sync", id |-> 0, member |-> NoMember, tx |-> NoTx]
ActReqJoin(c) == [type |-> "ReqJoin", id |-> c, member |-> NoMember, tx |-> NoTx]
ActReqLeave(c) == [type |-> "ReqLeave", id |-> c, member |-> NoMember, tx |-> NoTx]
ActJoinShare(m) == [type |-> "JoinShare", id |-> 0, member |-> m, tx |-> NoTx]
ActReqReissue(t) == [type |-> "ReqReissue", id |-> 0, member |-> NoMember, tx |-> t]
ActStartReissue == [type |-> "StartReissue", id |-> 0, member |-> NoMember, tx |-> NoTx]
ActTriggerLeave == [type |-> "TriggerLeave", id |-> 0, member |-> NoMember, tx |-> NoTx]

MembershipActions == {"ReqJoin", "ReqLeave", "JoinShare"}

\* The match on the membership action answering ReqJoin on every node, elder
\* or not.
membership_on_msg_any_node(ss, elders, id, src, action) ==
    CASE action.type = "ReqJoin" ->
            IF ~HasMemberWithId(ss, action.id)
            THEN LET latest_ord_idx ==
                         IF ss.members = {} THEN 0
                         ELSE CHOOSE n \in {m.ord_idx : m \in ss.members} :
                                  \A m \in ss.members : m.ord_idx <= n
                     member == Member(latest_ord_idx + 1, action.id)
                 IN  [ss |-> handle_join_share(ss, id, member, id),
                      sync |-> IF handle_join_share_first(ss, member, id)
                               THEN {action.id} ELSE {}]
            ELSE [ss |-> ss, sync |-> {}]
      [] action.type = "ReqLeave" ->
            IF HasMemberWithId(ss, action.id)
            THEN LET member == member_by_id(ss, action.id)
                 IN  [ss |-> handle_leave_share(ss, id, member, src),
                      sync |-> IF handle_leave_share_first(ss, member, src)
                               THEN {action.id} ELSE {}]
            ELSE [ss |-> ss, sync |-> {}]
      [] action.type = "JoinShare" ->
            [ss |-> handle_join_share(ss, id, action.member, src),
             sync |-> IF handle_join_share_first(ss, action.member, src)
                      THEN {action.member.id} ELSE {}]
      [] OTHER -> [ss |-> ss, sync |-> {}]

\* The match on the membership action: [ss, sync].
membership_on_msg(ss, elders, id, src, action) ==
    CASE action.type = "ReqJoin" ->
            IF ~HasMemberWithId(ss, action.id) /\ id \in elders
            THEN LET latest_ord_idx ==
                         IF ss.members = {} THEN 0
                         ELSE CHOOSE n \in {m.ord_idx : m \in ss.members} :
                                  \A m \in ss.members : m.ord_idx <= n
                     member == Member(latest_ord_idx + 1, action.id)
                 IN  [ss |-> handle_join_share(ss, id, member, id),
                      sync |-> IF handle_join_share_first(ss, member, id)
                               THEN {action.id} ELSE {}]
            ELSE [ss |-> ss, sync |-> {}]
      [] action.type = "ReqLeave" ->
            IF HasMemberWithId(ss, action.id)
            THEN LET member == member_by_id(ss, action.id)
                 IN  [ss |-> handle_leave_share(ss, id, member, src),
                      sync |-> IF handle_leave_share_first(ss, member, src)
                               THEN {action.id} ELSE {}]
            ELSE [ss |-> ss, sync |-> {}]
      [] action.type = "JoinShare" ->
            [ss |-> handle_join_share(ss, id, action.member, src),
             sync |-> IF handle_join_share_first(ss, action.member, src)
                      THEN {action.member.id} ELSE {}]
      [] OTHER -> [ss |-> ss, sync |-> {}]

\* process_pending_actions: promote what has quorum; an elder whose committed
\* view changed syncs every member.
process_pending_actions(ss, id) ==
    LET elders == elders_of(ss)
        after == process_ready_actions(ss, elders)
    IN  [ss |-> after,
         sync |-> IF process_ready_actions_updated(ss, elders) /\ id \in elders
                  THEN ids(after) ELSE {}]

\* Membership::build_msg: the stable set is cloned as it is.
membership_build_msg(ss, action) == [stable_set |-> ss, action |-> action]

\* Membership::req_leave: [ss, msg]
req_leave(ss, id) ==
    LET after == IF HasMemberWithId(ss, id)
                 THEN handle_leave_share(ss, id, member_by_id(ss, id), id)
                 ELSE ss
    IN  [ss |-> after, msg |-> membership_build_msg(after, ActReqLeave(id))]

req_join(ss, id) == membership_build_msg(ss, ActReqJoin(id))

\* build_msg of main.rs: the witnesses are cleared on the outgoing copy.
build_msg(ss, action) ==
    [stable_set |-> [ss EXCEPT !.joining = [k \in DOMAIN ss.joining |-> {}],
                               !.leaving = [k \in DOMAIN ss.leaving |-> {}]],
     action |-> action]

\* ---------------------------------------------------------------- Node
Envelope(src, dst, msg) == [src |-> src, dst |-> dst, msg |-> msg]

\* o.broadcast(dsts, msg)
Broadcast(src, dsts, msg) == {Envelope(src, d, msg) : d \in dsts}

\* Node::on_start: the messages node id sends when it starts.
on_start_out(id) ==
    LET membership == MembershipNew(GenesisNodes)
    IN  (IF id \notin GenesisNodes
         THEN Broadcast(id, GenesisNodes, req_join(membership, id))
         ELSE {})
        \cup {Envelope(id, id, build_msg(membership, ActStartReissue))}

\* The tx a node reissues on StartReissue: the genesis DBC split as (id, 100 - id).
ReissueTx(id) == Tx(<<genesis_dbc>>, <<id, amount(genesis_dbc) - id>>)

\* Wallet::on_msg re-broadcasting every ReqReissue that validates, recorded
\* before or not.
wallet_on_msg_echo(led, membership, id, src, tx) ==
    [ledger |-> process_completed_commitments(log_tx_share(led, id, tx, src),
                                              elders_of(membership)),
     out |-> IF validate_tx(led, tx)
             THEN Broadcast(id, elders_of(membership) \ {id},
                            build_msg(membership, ActReqReissue(tx)))
             ELSE {}]

\* Wallet::on_msg: [ledger, out]
wallet_on_msg(led, membership, id, src, tx) ==
    LET elders == elders_of(membership)
    IN  [ledger |-> process_completed_commitments(log_tx_share(led, id, tx, src), elders),
         out |-> IF log_tx_share_first(led, tx)
                 THEN Broadcast(id, elders \ {id}, build_msg(membership, ActReqReissue(tx)))
                 ELSE {}]

\* Wallet::reissue: the envelopes sent
reissue(membership, id, inputs, outputs) ==
    Broadcast(id, elders_of(membership), build_msg(membership, ActReqReissue(Tx(inputs, outputs))))

\* id > Id::from((peers.len() * 2) / 3)
WantsToLeave(id) == id > ((config.server_count * 2) \div 3)

\* The match on the action of Node::on_msg, after the merge left the stable
\* set ss and the ids to sync: [ss, sync, ledger, out].
Dispatched(ss, sync, led, out) == [ss |-> ss, sync |-> sync, ledger |-> led, out |-> out]

WithMembership(merged, r, led) == Dispatched(r.ss, merged.sync \cup r.sync, led, {})

WithWallet(merged, r) == Dispatched(merged.ss, merged.sync, r.ledger, r.out)

WithLeave(id, elders, merged, r, led) ==
    Dispatched(r.ss, merged.sync, led, Broadcast(id, elders, r.msg))

dispatch(id, src, action, elders, merged, led) ==
    CASE action.type \in MembershipActions ->
            WithMembership(merged, membership_on_msg(merged.ss, elders, id, src, action), led)
      [] action.type = "ReqReissue" ->
            WithWallet(merged, wallet_on_msg(led, merged.ss, id, src, action.tx))
      [] action.type = "StartReissue" ->
            Dispatched(merged.ss, merged.sync, led,
                       reissue(merged.ss, id, <<genesis_dbc>>,
                               <<id, amount(genesis_dbc) - id>>))
      [] action.type = "TriggerLeave" ->
            WithLeave(id, elders, merged, req_leave(merged.ss, id), led)
      [] OTHER -> Dispatched(merged.ss, merged.sync, led, {})

\* The auto-leave trigger of Node::on_msg.
auto_leave(id, ss, leaving) == WantsToLeave(id) /\ is_member(ss, id) /\ ~leaving

\* The end of Node::on_msg with a Sync to every other id the node knows,
\* whether or not anything is to be synced.
finish_sync_always(id, d, trigger, leaving, pend) ==
    [ss |-> pend.ss,
     ledger |-> d.ledger,
     is_leaving |-> (leaving \/ trigger),
     out |-> d.out
             \cup (IF trigger
                   THEN {Envelope(id, id, build_msg(d.ss, ActTriggerLeave))}
                   ELSE {})
             \cup Broadcast(id, ids(pend.ss) \ {id}, build_msg(pend.ss, ActSync))]

\* The end of Node::on_msg: pending actions, then the Sync broadcast.
finish(id, d, trigger, leaving, pend) ==
    [ss |-> pend.ss,
     ledger |-> d.ledger,
     is_leaving |-> (leaving \/ trigger),
     out |-> d.out
             \cup (IF trigger
                   THEN {Envelope(id, id, build_msg(d.ss, ActTriggerLeave))}
                   ELSE {})
             \cup Broadcast(id, (d.sync \cup pend.sync) \ {id}, build_msg(pend.ss, ActSync))]

after_dispatch(id, d, leaving) ==
    finish(id, d, auto_leave(id, d.ss, leaving), leaving, process_pending_actions(d.ss, id))

\* Node::on_msg: [ss, ledger, is_leaving, out] after node id, in state
\* (ss, led, leaving), handled msg from src.
on_msg(id, ss, led, leaving, src, msg) ==
    after_dispatch(id,
                   dispatch(id, src, msg.action, elders_of(ss),
                            membership_merge(ss, msg.stable_set, id, src), led),
                   leaving)

\* The node of envelope e after the merge and the match on the action, and
\* after the whole of on_msg.
DispatchedOn(e) ==
    dispatch(e.dst, e.src, e.msg.action, elders_of(stable_set[e.dst]),
             membership_merge(stable_set[e.dst], e.msg.stable_set, e.dst, e.src),
             ledger[e.dst])

Handled(e) ==
    on_msg(e.dst, stable_set[e.dst], ledger[e.dst], is_leaving[e.dst], e.src, e.msg)

InitWith(c) ==
    /\ config = c
    /\ stable_set = [n \in Ids |-> MembershipNew(GenesisNodes)]
    /\ ledger = [n \in Ids |-> LedgerNew]
    /\ is_leaving = [n \in Ids |-> FALSE]
    /\ network = SetToBag(UNION {on_start_out(n) : n \in Ids})
    /\ steps = 0

Init == \E c \in Configs : InitWith(c)

\* The network delivers envelope e and its receiver runs on_msg to completion.
Delivered(e, r) ==
    /\ stable_set' = [stable_set EXCEPT ![e.dst] = r.ss]
    /\ ledger' = [ledger EXCEPT ![e.dst] = r.ledger]
    /\ is_leaving' = [is_leaving EXCEPT ![e.dst] = r.is_leaving]
    /\ network' = (network (-) SetToBag({e})) (+) SetToBag(r.out)
    /\ steps' = steps + 1
    /\ UNCHANGED config

Deliver(e) ==
    Delivered(e, on_msg(e.dst, stable_set[e.dst], ledger[e.dst], is_leaving[e.dst],
                        e.src, e.msg))

InFlight(types) == {e \in BagToSet(network) : e.msg.action.type \in types}

\* The schedule: the first MaxSteps deliveries of a run (all of them when there
\* are at most FullServers actors) are taken in every order the unordered
\* network allows; from then on the network hands over the envelope of the
\* lowest (dst, src, action) until none is left.
TypeRank(t) ==
    CASE t = "StartReissue" -> 0
      [] t = "TriggerLeave" -> 1
      [] t = "ReqJoin" -> 2
      [] t = "ReqLeave" -> 3
      [] t = "JoinShare" -> 4
      [] t = "ReqReissue" -> 5
      [] OTHER -> 6

Key(e) == (e.dst * 100) + (e.src * 10) + TypeRank(e.msg.action.type)

Scheduled(e) ==
    \/ steps < MaxSteps
    \/ config.server_count <= FullServers
    \/ \A f \in BagToSet(network) : Key(e) <= Key(f)

DeliverSync ==
    \E e \in InFlight({"Sync"}) : Scheduled(e) /\ Deliver(e)

DeliverMembership ==
    \E e \in InFlight(MembershipActions) : Scheduled(e) /\ Deliver(e)

DeliverWallet ==
    \E e \in InFlight({"ReqReissue"}) : Scheduled(e) /\ Deliver(e)

DeliverStartReissue ==
    \E e \in InFlight({"StartReissue"}) : Scheduled(e) /\ Deliver(e)

DeliverTriggerLeave ==
    \E e \in InFlight({"TriggerLeave"}) : Scheduled(e) /\ Deliver(e)

Next ==
    \/ DeliverSync
    \/ DeliverMembership
    \/ DeliverWallet
    \/ DeliverStartReissue
    \/ DeliverTriggerLeave

Spec == Init /\ [][Next]_vars

\* The network delivers every message it holds: a run does not stop while an
\* envelope is in flight. Every delivery, and no other step, counts one step.
Delivery == network # EmptyBag /\ steps' = steps + 1

FairSpec == Spec /\ WF_steps(Delivery)

\* ---------------------------------------------------------------- properties of main.rs
Terminal == network = EmptyBag

NonLeaving == {n \in Ids : ~is_leaving[n]}

\* reference_stable_set: the stable set of the first actor that is not leaving.
reference_stable_set ==
    IF NonLeaving = {} THEN StableSetDefault
    ELSE stable_set[CHOOSE n \in NonLeaving : \A m \in NonLeaving : n <= m]

prop_stable_set_converged ==
    \A n \in NonLeaving : stable_set[n].members = reference_stable_set.members

prop_all_nodes_joined_who_havent_left ==
    \A n \in NonLeaving : contains(reference_stable_set, n)

prop_all_nodes_who_are_leaving_eventually_left ==
    \A n \in Ids : is_leaving[n] => ~contains(reference_stable_set, n)

prop_unspent_outputs_equals_genesis_amount ==
    \A n \in Ids : amount(genesis_dbc) = sum_unspent_outputs(ledger[n])

\* The txs that reach a majority of the elders in actor a's view.
aggregated_txs(a) ==
    LET elders == elders_of(stable_set[a])
        seen == UNION {read_tx(ledger[e], id_of(genesis_dbc)) : e \in elders}
    IN  {tx \in seen :
            majority(Cardinality({e \in elders : tx \in read_tx(ledger[e], id_of(genesis_dbc))}),
                     Cardinality(elders))}

concurrent_txs == UNION {aggregated_txs(a) : a \in Ids}

prop_no_double_spends == Cardinality(concurrent_txs) <= 1

\* ---------------------------------------------------------------- StableSet taken alone
\* The public operations of StableSet called in any order on the stable set
\* of node 0, with members, witnesses and elders drawn from small sets.
SetConfig == [server_count |-> SetServers, elder_count |-> 1, elder_limit |-> ELDER_COUNT]

SetMembers == {Member(o, i) : o \in 0 .. MaxOrdIdx, i \in 0 .. (SetServers - 1)}

\* Rosters another node can hold: no id twice.
SetRosters ==
    {r \in SUBSET SetMembers : \A a, b \in r : a.id = b.id => a = b}

InitSet ==
    /\ config = SetConfig
    /\ stable_set = [n \in Ids |-> MembershipNew(GenesisNodes)]
    /\ ledger = [n \in Ids |-> LedgerNew]
    /\ is_leaving = [n \in Ids |-> FALSE]
    /\ network = EmptyBag
    /\ steps = 0

SetCall(after) ==
    /\ stable_set' = [stable_set EXCEPT ![0] = after]
    /\ UNCHANGED <<config, ledger, is_leaving, network, steps>>

CallAdd ==
    \E member \in SetMembers, witness \in Ids :
        SetCall(add(stable_set[0], member, witness))

CallRemove ==
    \E id \in Ids : SetCall(remove(stable_set[0], id))

CallProcessReadyActions ==
    \E elders \in SUBSET Ids :
        SetCall(process_ready_actions(stable_set[0], elders))

CallMerge ==
    \E witness \in Ids, roster \in SetRosters, elders \in SUBSET Ids :
        SetCall(merge(stable_set[0], witness,
                      [StableSetDefault EXCEPT !.members = roster], elders))

NextSet ==
    \/ CallAdd
    \/ CallRemove
    \/ CallProcessReadyActions
    \/ CallMerge

SpecSet == InitSet /\ [][NextSet]_vars

\* ---------------------------------------------------------------- Ledger taken alone
\* log_tx_share and process_completed_commitments called in any order on the
\* ledger of node 0, with Txs, witnesses and elders drawn from small sets.

\* Indexing tx.outputs past its end panics (Dbc::amount); the panics that
\* validate_tx can run into, in the order of its statements.
amount_panics(dbc) == dbc.output_index >= Len(dbc.tx.outputs)

verify_sums_panics(tx) == \E i \in 1 .. Len(tx.inputs) : amount_panics(tx.inputs[i])

verify_panics(dbc) ==
    dbc.output_index < Len(dbc.tx.outputs) /\ verify_sums_panics(dbc.tx)

validate_tx_panics(led, tx) ==
    \/ verify_sums_panics(tx)
    \/ /\ verify_sums(tx)
       /\ \E k \in 1 .. Len(tx.inputs) :
             /\ \A j \in 1 .. (k - 1) :
                   ~verify_panics(tx.inputs[j]) /\ InputOk(led, tx, tx.inputs[j])
             /\ verify_panics(tx.inputs[k])

\* Two reissues of the genesis DBC, and one whose outputs do not sum to 100.
TxSplit == Tx(<<genesis_dbc>>, <<40, 60>>)
TxWhole == Tx(<<genesis_dbc>>, <<100>>)
TxInflated == Tx(<<genesis_dbc>>, <<50, 60>>)
\* Txs spending the outputs of TxSplit: one, both, and the first one twice.
TxChild == Tx(<<Dbc(0, TxSplit)>>, <<40>>)
TxJoin == Tx(<<Dbc(0, TxSplit), Dbc(1, TxSplit)>>, <<100>>)
TxTwice == Tx(<<Dbc(0, TxSplit), Dbc(0, TxSplit)>>, <<80>>)
\* The second output of TxSplit split again, and a Tx spending TxChild's output.
TxRest == Tx(<<Dbc(1, TxSplit)>>, <<10, 50>>)
TxGrandchild == Tx(<<Dbc(0, TxChild)>>, <<40>>)
\* Inputs that do not verify: an output of TxInflated, and an output TxSplit
\* does not have.
TxOrphan == Tx(<<Dbc(0, TxInflated)>>, <<50>>)
TxBeyond == Tx(<<Dbc(2, TxSplit)>>, <<0>>)

\* A Tx spending a zero-valued DBC minted from no inputs: the DBC verifies
\* (index in range, sums 0 = 0), is not the genesis DBC, and has its DbcId.
TxForged == Tx(<<Dbc(0, Tx(<<>>, <<0>>))>>, <<0>>)

LedgerTxs ==
    {TxSplit, TxWhole, TxInflated, TxChild, TxJoin, TxTwice, TxRest, TxGrandchild,
     TxOrphan, TxBeyond, TxForged}

LedgerConfig ==
    [server_count |-> LedgerServers, elder_count |-> 1, elder_limit |-> ELDER_COUNT]

InitLedger ==
    /\ config = LedgerConfig
    /\ stable_set = [n \in Ids |-> MembershipNew(GenesisNodes)]
    /\ ledger = [n \in Ids |-> LedgerNew]
    /\ is_leaving = [n \in Ids |-> FALSE]
    /\ network = EmptyBag
    /\ steps = 0

LedgerCall(after) ==
    /\ ledger' = [ledger EXCEPT ![0] = after]
    /\ UNCHANGED <<config, stable_set, is_leaving, network, steps>>

\* A call that panics unwinds before it writes anything.
CallLogTxShare ==
    \E tx \in LedgerTxs, witness \in Ids :
        /\ ~validate_tx_panics(ledger[0], tx)
        /\ LedgerCall(log_tx_share(ledger[0], 0, tx, witness))

CallProcessCompletedCommitments ==
    \E elders \in SUBSET Ids :
        LedgerCall(process_completed_commitments(ledger[0], elders))

NextLedger ==
    \/ CallLogTxShare
    \/ CallProcessCompletedCommitments

SpecLedger == InitLedger /\ [][NextLedger]_vars

\* ---------------------------------------------------------------- claims
GenesisId == id_of(genesis_dbc)

\* C1: in every reachable state, on every node, the unspent outputs of the
\* genesis Tx and of the committed Txs add up to 100.
C1_Conservation ==
    \A n \in Ids : sum_unspent_outputs(ledger[n]) = 100

\* C1 witness: a node has committed a reissue of the genesis DBC, so the sum
\* is taken over the outputs of a committed Tx and the spent genesis output.
C1_Committed ==
    \E n \in Ids : GenesisId \in DOMAIN ledger[n].commitments

C3_CommitmentsIrreversible ==
    [][\A n \in Ids : \A d \in DOMAIN ledger[n].commitments :
          /\ d \in DOMAIN ledger'[n].commitments
          /\ ledger'[n].commitments[d] = ledger[n].commitments[d]]_vars

\* C3 witness: a node that committed the genesis DBC to one Tx is about to be
\* handed a ReqReissue of a different Tx spending the same DBC.
C3_RivalArrives ==
    \E e \in InFlight({"ReqReissue"}) :
        /\ GenesisId \in DOMAIN ledger[e.dst].commitments
        /\ ledger[e.dst].commitments[GenesisId] # e.msg.action.tx

\* ELDER_COUNT as main.rs builds it.
AsBuilt == config.elder_limit = ELDER_COUNT

\* C4: in every terminal state (no undelivered message) all nodes that are
\* not leaving hold the same members.
C4_TerminalConverged == (AsBuilt /\ Terminal) => prop_stable_set_converged

\* C5: in every terminal state every node that is not leaving is a member in
\* the reference stable set.
C5_TerminalAllJoined ==
    (AsBuilt /\ Terminal) => prop_all_nodes_joined_who_havent_left

\* C6: in every terminal state every node that is leaving is absent from the
\* members of every node that is not leaving.
C6_TerminalAllLeft ==
    (AsBuilt /\ Terminal) =>
        \A n \in Ids : is_leaving[n] =>
            \A m \in NonLeaving : ~contains(stable_set[m], n)

\* C7: within one node's members no two distinct members share an ord_idx.
C7_UniqueOrdIdx ==
    AsBuilt =>
        \A n \in Ids : \A a, b \in stable_set[n].members :
            a.ord_idx = b.ord_idx => a = b

\* C8: within one node's members every id appears at most once, also when
\* several joining entries of one id with different ord_idx reach quorum.
C8_UniqueId ==
    \A n \in Ids : \A a, b \in stable_set[n].members : a.id = b.id => a = b

\* C8 witness: a member was promoted while a second joining entry of the same
\* id, with another ord_idx, is still waiting for its quorum.
C8_SecondEntryPending ==
    \E n \in Ids : \E m \in stable_set[n].members :
        \E j \in DOMAIN stable_set[n].joining :
            j.id = m.id /\ j.ord_idx # m.ord_idx

\* C9: an id that is in a node's dead set is in it in every later state.
C9_MonotoneDead ==
    [][\A n \in Ids : stable_set[n].dead \subseteq stable_set'[n].dead]_vars

\* C9 witness: ids are dead on a node that went on adding joiners afterwards.
C9_DeadAndJoining ==
    \E n \in Ids :
        /\ Cardinality(stable_set[n].dead) >= 2
        /\ DOMAIN stable_set[n].joining # {}

\* C10: on every node no id is both in dead and the id of a member.
C10_MembersDeadDisjoint ==
    \A n \in Ids : \A m \in stable_set[n].members : m.id \notin stable_set[n].dead

\* C11: when process_ready_actions takes a member out of leaving, its id is
\* marked dead, so that has_seen(id) is true after the step.
C11_LeftIsSeen ==
    [][AsBuilt =>
          \A n \in Ids : \A m \in DOMAIN stable_set[n].leaving :
              m \notin DOMAIN stable_set'[n].leaving
                  => has_seen(stable_set'[n], m.id)]_vars

\* C12: add(member, witness) on a seen id returns false and changes nothing;
\* on an unseen id it records the witness and returns true exactly when the
\* member had no recorded witness before.
C12_AddContract ==
    \A member \in SetMembers, witness \in Ids :
        IF has_seen(stable_set[0], member.id)
        THEN /\ ~add_ok(stable_set[0], member, witness)
             /\ add(stable_set[0], member, witness) = stable_set[0]
        ELSE /\ witness \in joining_witnesses(add(stable_set[0], member, witness), member)
             /\ add_ok(stable_set[0], member, witness)
                    <=> (joining_witnesses(stable_set[0], member) = {})

\* The reasons C13 lists for validate_tx to fail.
C13_Fails(led, tx) ==
    \/ \E d \in SeqRange(tx.inputs) : ~verify(d) /\ d # genesis_dbc
    \/ ~verify_sums(tx)
    \/ \E d \in SeqRange(tx.inputs) : \E parent \in SeqRange(d.tx.inputs) :
          \/ id_of(parent) \notin DOMAIN led.commitments
          \/ led.commitments[id_of(parent)] # d.tx
    \/ \E d \in SeqRange(tx.inputs) : id_of(d) \in DOMAIN led.commitments
    \/ \E d \in SeqRange(tx.inputs) : \E other \in DOMAIN led.pending_commitments :
          other # tx /\ d \in SeqRange(other.inputs)

\* C13: log_tx_share on a tx that fails validation returns false and leaves
\* the ledger as it was; on a valid tx it adds self and witness to the tx's
\* pending witnesses and returns true iff the tx had no pending entry.
C13_LogTxShare ==
    \A tx \in LedgerTxs, witness \in Ids :
        IF C13_Fails(ledger[0], tx)
        THEN /\ ~validate_tx_panics(ledger[0], tx)
             /\ ~log_tx_share_first(ledger[0], tx)
             /\ log_tx_share(ledger[0], 0, tx, witness) = ledger[0]
        ELSE /\ log_tx_share(ledger[0], 0, tx, witness).commitments
                    = ledger[0].commitments
             /\ log_tx_share(ledger[0], 0, tx, witness).pending_commitments
                    = MapPut(ledger[0].pending_commitments, tx,
                             MapGet(ledger[0].pending_commitments, tx) \cup {0, witness})
             /\ log_tx_share_first(ledger[0], tx)
                    <=> (tx \notin DOMAIN ledger[0].pending_commitments)

\* The DbcIds a tx spends.
C14_InputIds(tx) == {id_of(d) : d \in SeqRange(tx.inputs)}

\* C14: in every node no two distinct pending txs spend the same DbcId, and no
\* pending tx spends a DbcId that is already a key of commitments.
C14_NoConcurrentSpend ==
    \A n \in Ids :
        /\ \A a, b \in DOMAIN ledger[n].pending_commitments :
              a # b => C14_InputIds(a) \cap C14_InputIds(b) = {}
        /\ \A a \in DOMAIN ledger[n].pending_commitments :
              C14_InputIds(a) \cap DOMAIN ledger[n].commitments = {}

\* A node holding a pending tx is sent a different tx that spends the same
\* DbcId.
C14_RivalAtPending ==
    \E e \in InFlight({"ReqReissue"}) :
        \E a \in DOMAIN ledger[e.dst].pending_commitments :
            /\ a # e.msg.action.tx
            /\ C14_InputIds(a) \cap C14_InputIds(e.msg.action.tx) # {}

\* The node after envelope e is delivered to the node left by on_msg as r.
C15_Again(e, r) == on_msg(e.dst, r.ss, r.ledger, r.is_leaving, e.src, e.msg)

C15_Idempotent(e) ==
    \A once \in {Handled(e)} : \A twice \in {C15_Again(e, once)} :
        /\ twice.ss = once.ss
        /\ twice.ledger = once.ledger
        /\ twice.is_leaving = once.is_leaving

\* C15: delivering a message to a node twice in a row leaves the node's
\* stable set, ledger and is_leaving as they were after the first delivery.
C15_DuplicateIdempotent ==
    AsBuilt => \A e \in BagToSet(network) : C15_Idempotent(e)

\* Scenario S2: genesis {0, 1}, servers {0, 1, 2, 3}, ELDER_COUNT 2.
S2Config == [server_count |-> 4, elder_count |-> 2, elder_limit |-> 2]

\* Node n holds four members, one per id, and ids 2 and 3 carry distinct
\* ord_idx drawn from {2, 3}.
C16_Joined(n) ==
    /\ Cardinality(stable_set[n].members) = 4
    /\ ids(stable_set[n]) = Ids
    /\ \A m \in stable_set[n].members : m.id \in {2, 3} => m.ord_idx \in {2, 3}
    /\ \A a, b \in stable_set[n].members :
          (a.id \in {2, 3} /\ b.id \in {2, 3} /\ a # b) => a.ord_idx # b.ord_idx

\* C16: in scenario S2, under fair delivery, the members of a node eventually
\* are four members with unique ids in which ids 2 and 3 have distinct ord_idx
\* in {2, 3}.
C16_ScenarioS2 == (config = S2Config) => <>(\E n \in Ids : C16_Joined(n))

\* Scenario S3: genesis {0}, servers {0, 1, 2, 3}, ELDER_COUNT 1.
S3Config == [server_count |-> 4, elder_count |-> 1, elder_limit |-> 1]

\* Node 3 has triggered its leave, the nodes that are not leaving hold the same
\* members, none of them lists id 3 and each of them has id 3 in dead.
C17_Left ==
    /\ 3 \in Ids
    /\ is_leaving[3]
    /\ prop_stable_set_converged
    /\ \A n \in NonLeaving :
          ~contains(stable_set[n], 3) /\ 3 \in stable_set[n].dead

\* C17: in scenario S3, under fair delivery, the nodes that are not leaving
\* eventually hold the same members without id 3 and all have id 3 in dead.
C17_ScenarioS3 == (config = S3Config) => <>C17_Left

\* Scenario S4: genesis {0}, servers {0, 1}, ELDER_COUNT 1.
S4Config == [server_count |-> 2, elder_count |-> 1, elder_limit |-> 1]

\* C18 as stated: in scenario S4, under fair delivery, node 0 eventually
\* commits the genesis DBC to the tx node 1 sent, the split [40, 60], and its
\* unspent outputs sum to 100.
C18_ScenarioS4 ==
    (config = S4Config) =>
        <>(/\ read_tx(ledger[0], GenesisId) # {}
           /\ read_tx(ledger[0], GenesisId) \subseteq {TxSplit, ReissueTx(1)}
           /\ sum_unspent_outputs(ledger[0]) = GenesisAmount)

\* C18, amended: in scenario S4, under fair delivery, node 0 eventually
\* commits the genesis DBC to the tx of one of the two nodes, [0, 100] of
\* node 0 or [1, 99] of node 1, and its unspent outputs sum to 100.
C18_ScenarioS4_Amended ==
    (config = S4Config) =>
        <>(/\ read_tx(ledger[0], GenesisId) # {}
           /\ read_tx(ledger[0], GenesisId) \subseteq {ReissueTx(0), ReissueTx(1)}
           /\ sum_unspent_outputs(ledger[0]) = GenesisAmount)

\* Node 1 has joined and node 0 has committed the tx of node 1.
C18_CommittedAfterJoin ==
    /\ config = S4Config
    /\ contains(stable_set[0], 1)
    /\ read_tx(ledger[0], GenesisId) = {ReissueTx(1)}

\* The members Membership::new is to yield for the genesis set G.
C19_GenesisMembers(G) == {Member(0, g) : g \in G}

\* C19: for every non-empty genesis set G, Membership::new(G) has exactly the
\* members Member{ord_idx: 0, id: g} for g in G, an empty dead set, no joining
\* (or leaving) entry, and member ids equal to G, so the assertion holds; every
\* node, genesis or not, starts with these members.
C19_GenesisBootstrap ==
    steps = 0 =>
        /\ \A G \in (SUBSET (0 .. (MaxServers - 1))) \ {{}} :
              /\ MembershipNew(G).members = C19_GenesisMembers(G)
              /\ MembershipNew(G).dead = {}
              /\ DOMAIN MembershipNew(G).joining = {}
              /\ DOMAIN MembershipNew(G).leaving = {}
              /\ ids(MembershipNew(G)) = G
        /\ \A n \in Ids :
              /\ stable_set[n] = MembershipNew(GenesisNodes)
              /\ stable_set[n].members = C19_GenesisMembers(GenesisNodes)

\* The start of a run with several genesis nodes and a node outside genesis.
C19_StartWithJoiner ==
    /\ steps = 0
    /\ Cardinality(GenesisNodes) > 1
    /\ Ids \ GenesisNodes # {}
    /\ \A n \in Ids \ GenesisNodes : stable_set[n].members = C19_GenesisMembers(GenesisNodes)

\* No joining or leaving entry of ss carries a witness.
C20_NoWitnesses(ss) ==
    /\ \A m \in DOMAIN ss.joining : ss.joining[m] = {}
    /\ \A m \in DOMAIN ss.leaving : ss.leaving[m] = {}

\* C20: every message a node sends carries the sender's members as they are
\* when the message is built and joining and leaving entries without
\* witnesses: the messages of on_start, and the messages on_msg sends for any
\* envelope in flight.
C20_MessagesCarryBareCopy ==
    AsBuilt =>
        /\ steps = 0 =>
              \A f \in BagToSet(network) :
                  /\ C20_NoWitnesses(f.msg.stable_set)
                  /\ f.msg.stable_set.members = stable_set[f.src].members
        /\ \A e \in BagToSet(network) :
              \A r \in {Handled(e)} : \A d \in {DispatchedOn(e)} : \A f \in r.out :
                  /\ C20_NoWitnesses(f.msg.stable_set)
                  /\ f.msg.stable_set.members =
                         IF f.msg.action.type = "Sync" THEN r.ss.members ELSE d.ss.members

\* The witnesses recorded for joining member m in ss that are elders of ss
\* number strictly more than half of the elders.
C21_Quorum(ss, m) ==
    2 * Cardinality(joining_witnesses(ss, m) \cap elders_of(ss)) > Cardinality(elders_of(ss))

\* What on_msg does to the joining entries of the node of envelope e: d is
\* the node when process_ready_actions starts, r the node when on_msg ends.
C21_Gated(e, d, r) ==
    /\ d.ss.members = stable_set[e.dst].members
    /\ \A m \in r.ss.members \ d.ss.members :
          m \in DOMAIN d.ss.joining /\ C21_Quorum(d.ss, m)
    /\ \A m \in DOMAIN d.ss.joining :
          ~C21_Quorum(d.ss, m) =>
              /\ m \notin r.ss.members \ d.ss.members
              /\ m \in DOMAIN r.ss.joining
              /\ r.ss.joining[m] = d.ss.joining[m]

\* C21: whatever envelope a node handles, a member enters its members only
\* from joining and only when the witnesses recorded for it that are among the
\* node's elders are a strict majority of those elders; a joining member below
\* that quorum stays in joining with its witnesses, whoever they are.
C21_QuorumGatedPromotion ==
    \A e \in BagToSet(network) :
        \A d \in {DispatchedOn(e)} : \A r \in {Handled(e)} : C21_Gated(e, d, r)

\* A node is about to handle an envelope that promotes one joining member and
\* leaves another below quorum although a witness that is no elder vouches
\* for it.
C21_PromotesAndHolds ==
    \E e \in BagToSet(network) :
        \E d \in {DispatchedOn(e)} : \E r \in {Handled(e)} :
            /\ r.ss.members # d.ss.members
            /\ \E m \in DOMAIN d.ss.joining :
                  /\ ~C21_Quorum(d.ss, m)
                  /\ d.ss.joining[m] \ elders_of(d.ss) # {}

\* The largest of a non-empty set of numbers.
C22_Max(S) == CHOOSE x \in S : \A y \in S : y <= x

\* The join loop of process_ready_actions taking the ready members in the
\* opposite order, largest first.
RECURSIVE C22_PromoteAllDesc(_, _)
C22_PromoteAllDesc(ss, ready) ==
    IF ready = {} THEN ss
    ELSE LET m == CHOOSE x \in ready : \A y \in ready : x = y \/ MemberLess(y, x)
         IN  C22_PromoteAllDesc(PromoteOne(ss, m), ready \ {m})

\* process_ready_actions(ss, elders) leaves, for every id with a ready joining
\* entry, one member, whose ord_idx is the largest among the ready entries and
\* the member ss already had for the id; the other order gives the same.
C22_TieBreak(ss, elders, ready, after) ==
    /\ \A id \in {m.id : m \in ready} :
          {m \in after.members : m.id = id} =
              {Member(C22_Max({m.ord_idx : m \in {x \in ready \cup ss.members : x.id = id}}), id)}
    /\ C22_PromoteAllDesc(ss, ready).members = PromoteAll(ss, ready).members

C23_Candidates == 0 .. SetServers

\* The ord_idx an elder gives a candidate: one more than the largest in its
\* members.
C23_NextOrdIdx(ss) ==
    1 + (IF ss.members = {} THEN 0
         ELSE CHOOSE n \in {m.ord_idx : m \in ss.members} :
                  \A m \in ss.members : m.ord_idx <= n)

\* Node id, with stable set ss and the elders given, handles ReqJoin(c) and
\* is left with the stable set after.
C23_Handled(ss, elders, id, c, after) ==
    IF id \in elders /\ ~has_seen(ss, c)
    THEN /\ \A m \in ss.members : m.ord_idx < C23_NextOrdIdx(ss)
         /\ after = [ss EXCEPT !.joining =
                        MapPut(ss.joining, Member(C23_NextOrdIdx(ss), c),
                               MapGet(ss.joining, Member(C23_NextOrdIdx(ss), c)) \cup {id})]
    ELSE after = ss

\* C23: a node handling ReqJoin(c) that is an elder and has not seen c records
\* Member{1 + its largest ord_idx, c} in joining with itself as witness, an
\* ord_idx above every member's; a node that is no elder, or has seen c,
\* creates no joining entry.
C23_ReqJoinHandling ==
    \A elders \in SUBSET Ids, id \in Ids, c \in C23_Candidates :
        C23_Handled(stable_set[0], elders, id, c,
                    membership_on_msg(stable_set[0], elders, id, c, ActReqJoin(c)).ss)

\* The stable set has an id that is dead and no member, an id that was never
\* seen, and a member above ord_idx 0.
C23_DeadUnseenAndRanked ==
    /\ \E c \in C23_Candidates : c \in stable_set[0].dead /\ ~contains(stable_set[0], c)
    /\ \E c \in C23_Candidates : ~has_seen(stable_set[0], c)
    /\ \E m \in stable_set[0].members : m.ord_idx > 0

\* The ReqReissue envelopes among those a node sends.
C24_Reissues(out) == {f \in out : f.msg.action.type = "ReqReissue"}

\* Node e.dst would re-broadcast tx if it were handed ReqReissue(tx) now.
C24_WouldEcho(led, tx) == validate_tx(led, tx) /\ tx \notin DOMAIN led.pending_commitments

\* Handling envelope e, which leaves the node as d after the match on the
\* action and as r at the end: ReqReissue envelopes go out only for a
\* StartReissue (the node's own tx, to all elders) or for a ReqReissue(tx)
\* that validates and is not yet pending, and then carry tx to the other
\* elders; having handled ReqReissue(tx) the node would not re-broadcast tx
\* again, and a tx it would not re-broadcast before the step it would not
\* re-broadcast after it.
C24_Once(e, d, r) ==
    /\ e.msg.action.type \notin {"ReqReissue", "StartReissue"} => C24_Reissues(r.out) = {}
    /\ e.msg.action.type = "ReqReissue" =>
          /\ C24_Reissues(r.out) # {} => C24_WouldEcho(ledger[e.dst], e.msg.action.tx)
          /\ \A f \in C24_Reissues(r.out) :
                /\ f.msg.action.tx = e.msg.action.tx
                /\ f.src = e.dst
                /\ f.dst # e.dst
                /\ f.dst \in elders_of(d.ss)
          /\ ~C24_WouldEcho(r.ledger, e.msg.action.tx)
    /\ \A i \in Ids :
          ~C24_WouldEcho(ledger[e.dst], ReissueTx(i)) => ~C24_WouldEcho(r.ledger, ReissueTx(i))

\* C24: a node re-broadcasts ReqReissue(tx), to the other elders only, while
\* handling a ReqReissue(tx) that validates and that it has not recorded yet;
\* from then on, also once the tx is committed or rejected, it never
\* re-broadcasts that tx again.
C24_AmplifiedOnce ==
    \A e \in BagToSet(network) :
        \A d \in {DispatchedOn(e)} : \A r \in {Handled(e)} : C24_Once(e, d, r)

\* A ReqReissue(tx) is on its way to a node that has committed tx, and another
\* to a node that holds tx pending.
C24_ArrivesAgain ==
    /\ \E e \in InFlight({"ReqReissue"}) :
          read_tx(ledger[e.dst], GenesisId) = {e.msg.action.tx}
    /\ \E e \in InFlight({"ReqReissue"}) :
          e.msg.action.tx \in DOMAIN ledger[e.dst].pending_commitments

\* The witnesses of pending tx t that are elders are a strict majority of the
\* elders.
C25_Quorum(led, elders, t) ==
    majority(Cardinality(led.pending_commitments[t] \cap elders), Cardinality(elders))

\* process_completed_commitments taking led to after under the given elders:
\* a pending tx at quorum leaves pending_commitments and has every input
\* DbcId mapped to it, one below quorum stays pending with its witnesses, and
\* commitments changes at no other key.
C25_Gated(led, elders, after) ==
    /\ \A t \in DOMAIN led.pending_commitments :
          IF C25_Quorum(led, elders, t)
          THEN /\ t \notin DOMAIN after.pending_commitments
               /\ \A i \in 1 .. Len(t.inputs) : read_tx(after, id_of(t.inputs[i])) = {t}
          ELSE /\ t \in DOMAIN after.pending_commitments
               /\ after.pending_commitments[t] = led.pending_commitments[t]
    /\ DOMAIN after.pending_commitments \subseteq DOMAIN led.pending_commitments
    /\ \A k \in DOMAIN after.commitments :
          read_tx(led, k) # {after.commitments[k]} =>
              \E t \in DOMAIN led.pending_commitments :
                  /\ C25_Quorum(led, elders, t)
                  /\ after.commitments[k] = t
                  /\ \E i \in 1 .. Len(t.inputs) : id_of(t.inputs[i]) = k

\* C25: whatever the elders, process_completed_commitments moves a pending Tx
\* into commitments exactly when its witnesses among the elders are a strict
\* majority of them, then maps every input DbcId of the Tx to it and drops it
\* from pending_commitments; a Tx below quorum stays pending with its
\* witnesses intact.
C25_QuorumGatedCommit ==
    \A elders \in SUBSET Ids :
        \A after \in {process_completed_commitments(ledger[0], elders)} :
            C25_Gated(ledger[0], elders, after)

\* C26: whatever sequence of log_tx_share and process_completed_commitments
\* calls a Ledger went through, with Txs of several inputs, Txs listing an
\* input twice and inputs other than the genesis DBC among them,
\* sum_unspent_outputs() is 100.
C26_LedgerConservation == sum_unspent_outputs(ledger[0]) = 100

\* The Tx that produced input DBC d of a committed Tx is committed under the
\* id of each of its own inputs.
C27_ParentCommitted(led, d) ==
    \A p \in SeqRange(d.tx.inputs) : read_tx(led, id_of(p)) = {d.tx}

\* C27: in every reachable Ledger state, for every committed Tx T and every
\* input DBC d of T, commitments maps the id of every input of d's tx to d's
\* tx.
C27_ChainIntegrity ==
    \A k \in DOMAIN ledger[0].commitments :
        \A d \in SeqRange(ledger[0].commitments[k].inputs) :
            C27_ParentCommitted(ledger[0], d)

\* The Sync envelopes among those a node sends.
C28_Syncs(out) == {f \in out : f.msg.action.type = "Sync"}

\* Handling envelope e, which leaves the node as d after the merge and the
\* match on the action and as r at the end: the node sends a Sync only when
\* the merge and the action, or the pending actions after them, changed its
\* stable set, and never to itself.
C28_SyncOnNews(e, d, r) ==
    /\ C28_Syncs(r.out) # {} => (d.ss # stable_set[e.dst] \/ r.ss # d.ss)
    /\ \A f \in C28_Syncs(r.out) : f.src = e.dst /\ f.dst # e.dst

C28_NoIdleSync ==
    \A e \in BagToSet(network) :
        \A d \in {DispatchedOn(e)} : \A r \in {Handled(e)} : C28_SyncOnNews(e, d, r)

====
